---- MODULE Spec2Model ----
(***************************************************************************)
(* The time cache of TimeAPI (src/src/main.rs): AppContext::get_time, its  *)
(* fast path under the read lock, its refresh path under the write lock    *)
(* and the NTP adapter get_time_from_ntp.                                  *)
(*                                                                         *)
(* Representation.                                                         *)
(*   - A DateTime<Utc> is [day, sec]: whole days since 1970-01-01 and the  *)
(*     second of that day.  A count of seconds too wide for a 32-bit       *)
(*     integer is kept as the same pair (count = day * 86400 + sec).       *)
(*   - SystemTime is a count of clock ticks, TicksPerSec ticks to the      *)
(*     second, so that Duration::as_secs really truncates.                 *)
(*   - Option<TimeCache> is a record with a `some` flag; the two fields    *)
(*     are meaningful only when the flag is set.                           *)
(*   - checked_add_signed cannot leave chrono's range here: last_ntp comes *)
(*     from a u32 count and the added seconds from the local clock, so it  *)
(*     always yields Some and the unwrap_or of main.rs:123 is never used.  *)
(***************************************************************************)
EXTENDS Integers, Sequences, FiniteSets

\* ---------------------------------------------------------------- bounds
NCallers == 2        \* concurrent request handlers
MaxCalls == 3        \* get_time() calls started in one behaviour
MaxClock == 4        \* last local clock reading, in ticks
TicksPerSec == 2     \* clock resolution below the second
MaxTimeout == 2      \* largest cache_timeout tried, in seconds
NtpSamples == 160    \* days of reference counts given to the adapter
MaxSkew == 1         \* times the local clock is set back in one behaviour
ScnCalls == 3        \* get_time() calls of the concrete scenario

\* ------------------------------------------------------ program constants
SecsPerDay == 86400
EpochMonths == 70 * 12

Callers == 1..NCallers

\* ------------------------------------------------------------- instants
Instant(d, s) == [day |-> d, sec |-> s]

NoInstant == Instant(0, 0)

\* DateTime::checked_add_signed(TimeDelta::seconds(n)), n >= 0
checked_add_signed(t, n) ==
    Instant(t.day + ((t.sec + n) \div SecsPerDay), (t.sec + n) % SecsPerDay)

\* -------------------------------------------------- proleptic Gregorian
IsLeap(y) == (y % 4 = 0) /\ ((y % 100 # 0) \/ (y % 400 = 0))

DaysInMonth(y, m) ==
    IF m = 2 THEN (IF IsLeap(y) THEN 29 ELSE 28)
    ELSE IF m \in {4, 6, 9, 11} THEN 30 ELSE 31

\* days since 1970-01-01 of the civil date y-m-d
DaysFromCivil(y, m, d) ==
    LET yy  == IF m <= 2 THEN y - 1 ELSE y
        era == yy \div 400
        yoe == yy - era * 400
        mp  == IF m > 2 THEN m - 3 ELSE m + 9
        doy == ((153 * mp + 2) \div 5) + d - 1
        doe == yoe * 365 + (yoe \div 4) - (yoe \div 100) + doy
    IN  era * 146097 + doe - 719468

\* the civil date of a day count since 1970-01-01
CivilFromDays(z0) ==
    LET z   == z0 + 719468
        era == z \div 146097
        doe == z - era * 146097
        yoe == (doe - (doe \div 1460) + (doe \div 36524) - (doe \div 146096)) \div 365
        doy == doe - (365 * yoe + (yoe \div 4) - (yoe \div 100))
        mp  == (5 * doy + 2) \div 153
        d   == doy - ((153 * mp + 2) \div 5) + 1
        m   == IF mp < 10 THEN mp + 3 ELSE mp - 9
        y   == yoe + era * 400 + (IF m <= 2 THEN 1 ELSE 0)
    IN  [year |-> y, month |-> m, dom |-> d]

\* Utc.timestamp_opt(sec as i64, 0).single(): a u32 count is always one
\* valid instant
timestamp_opt(days, secs) == [ok |-> TRUE, val |-> Instant(days, secs)]

\* DateTime::checked_sub_months(Months::new(n)): the calendar date moves back
\* n months, the day of the month is clamped to the target month, the time of
\* day is kept
checked_sub_months(t, n) ==
    LET c   == CivilFromDays(t.day)
        mon == c.year * 12 + (c.month - 1) - n
        y   == mon \div 12
        m   == (mon % 12) + 1
        dim == DaysInMonth(y, m)
        d   == IF c.dom > dim THEN dim ELSE c.dom
    IN  [ok |-> TRUE, val |-> Instant(DaysFromCivil(y, m, d), t.sec)]

\* ------------------------------------------------------- the NTP adapter
\* A reply of ntp::request: a network error, or ref_time.sec given as
\* sec = days * 86400 + secs.
NetError == [ok |-> FALSE, days |-> 0, secs |-> 0]

NtpReply(d, s) == [ok |-> TRUE, days |-> d, secs |-> s]

Failure == [ok |-> FALSE, val |-> NoInstant]

get_time_from_ntp(response) ==
    IF ~response.ok THEN Failure
    ELSE LET single == timestamp_opt(response.days, response.secs)
         IN  IF ~single.ok THEN Failure
             ELSE checked_sub_months(single.val, EpochMonths)

\* --------------------------------------------------------------- state
VARIABLES
    clock,          \* SystemTime::now(), in ticks
    cache_timeout,  \* AppContext.cache_timeout, in seconds
    time_cache,     \* AppContext.time_cache: the slot behind the RwLock
    readers,        \* callers holding a read guard of the RwLock
    writer,         \* the caller holding the write guard, 0 when none
    queue,          \* callers waiting for the RwLock, first come first served
    pc,             \* where each caller stands in get_time()
    duration,       \* the local `duration` of update_and_return_new_time
    ret,            \* what get_time() returned to each caller
    path,           \* history: the branch that produced ret
    fetched,        \* history: requests the current call sent to the source
    t_eval,         \* history: the clock reading of the check before a fetch
    reply,          \* history: the reply the current call's request received
    ncalls,         \* history: get_time() calls started
    busyStart,      \* history: the clock reading when the calls now running
                    \* concurrently began (the first of them arrived)
    inBusy,         \* history: the caller's current call is one of them
    arrStale,       \* history: the slot was stale or empty when it arrived
    nback,          \* history: times the local clock was set back
    fromCurrent,    \* history: ret was derived from the reading now stored
    ntp_req,        \* adapter on its own: the reply under conversion
    ntp_res         \* adapter on its own: the result of the conversion

vars == <<clock, cache_timeout, time_cache, readers, writer, queue, pc,
          duration, ret, path, fetched, t_eval, reply, ncalls, busyStart,
          inBusy, arrStale, nback, fromCurrent, ntp_req, ntp_res>>

\* ---------------------------------------------------------- local values
\* Option<TimeCache>
EmptySlot == [some |-> FALSE, last_ntp |-> NoInstant, last_updated |-> 0]

TimeCache(ntp, updated) ==
    [some |-> TRUE, last_ntp |-> ntp, last_updated |-> updated]

\* Result<i128, SystemTimeError>
NoDuration == [ok |-> FALSE, secs |-> 0]

\* the value handed back by get_time(): DateTime<Utc>; the function has no
\* error variant
NoRet == [kind |-> "None", val |-> NoInstant]

Returned(t) == [kind |-> "Instant", val |-> t]

\* Duration::as_secs
as_secs_ceil(ticks) == (ticks + TicksPerSec - 1) \div TicksPerSec

as_secs(ticks) == ticks \div TicksPerSec

\* SystemTime::now().duration_since(earlier).map(|x| x.as_secs().into())
duration_since_signed(now, earlier) ==
    [ok |-> TRUE, secs |-> (now - earlier) \div TicksPerSec]

duration_since(now, earlier) ==
    IF now >= earlier THEN [ok |-> TRUE, secs |-> as_secs(now - earlier)]
    ELSE NoDuration

\* duration.is_ok_and(|dur| (..cache_timeout).contains(dur))
is_fresh_inclusive(d, timeout) == d.ok /\ d.secs <= timeout

is_fresh(d, timeout) == d.ok /\ d.secs < timeout

\* duration.is_ok_and(|dur| (cache_timeout..).contains(dur))
is_timed_out_always(d, timeout) == d.ok

is_timed_out_strict(d, timeout) == d.ok /\ d.secs > timeout

is_timed_out(d, timeout) == d.ok /\ d.secs >= timeout

\* the slot after `if let Ok(val) = get_time_from_ntp()` on a stale reading:
\* both fields are overwritten on success, nothing is on failure
after_update_touch(slot, val, now) ==
    IF val.ok THEN [slot EXCEPT !.last_ntp = val.val, !.last_updated = now]
    ELSE [slot EXCEPT !.last_updated = now]

after_update_keep(slot, val, now) ==
    IF val.ok THEN [slot EXCEPT !.last_ntp = val.val]
    ELSE slot

after_update(slot, val, now) ==
    IF val.ok THEN [slot EXCEPT !.last_ntp = val.val, !.last_updated = now]
    ELSE slot

\* the slot after get_time_from_ntp().inspect(..) on an empty slot
after_create_always(slot, val, now) == TimeCache(val.val, now)

after_create(slot, val, now) ==
    IF val.ok THEN TimeCache(val.val, now) ELSE slot

\* chrono::Utc::now(): the local clock read as a calendar instant; the clock
\* reads 2022-01-08T00:00:00Z at tick 0
UtcNow(now) == checked_add_signed(Instant(19000, 0), as_secs(now))

\* the replies the time source gives the cache: no answer, or a count that
\* the adapter turns into 2023-12-31T23:59:59Z or 2024-01-01T00:00:10Z
Replies == {NetError, NtpReply(45290, 86399), NtpReply(45291, 10)}

\* ----------------------------------------------------------------- Init
\* AppContext::new
new(time_out) ==
    /\ cache_timeout = time_out
    /\ time_cache = EmptySlot
    /\ readers = {}
    /\ writer = 0
    /\ queue = <<>>

InitCallers ==
    /\ clock = 0
    /\ pc = [p \in Callers |-> "idle"]
    /\ duration = [p \in Callers |-> NoDuration]
    /\ ret = [p \in Callers |-> NoRet]
    /\ path = [p \in Callers |-> "none"]
    /\ fetched = [p \in Callers |-> 0]
    /\ t_eval = [p \in Callers |-> 0]
    /\ reply = [p \in Callers |-> NetError]
    /\ ncalls = 0
    /\ busyStart = 0
    /\ inBusy = [p \in Callers |-> FALSE]
    /\ arrStale = [p \in Callers |-> FALSE]
    /\ nback = 0
    /\ fromCurrent = [p \in Callers |-> FALSE]

NtpIdle ==
    /\ ntp_req = NetError
    /\ ntp_res = [done |-> FALSE, ok |-> FALSE, val |-> NoInstant]

Init ==
    /\ \E time_out \in 0..MaxTimeout : new(time_out)
    /\ InitCallers
    /\ NtpIdle

\* -------------------------------------------------------------- actions
\* get_time() is called: the fast path asks for the read lock (main.rs:55)
Call(p, maxCalls) ==
    /\ pc[p] \in {"idle", "done", "abandoned"}
    /\ ncalls < maxCalls
    /\ pc' = [pc EXCEPT ![p] = "read_wait"]
    /\ queue' = Append(queue, <<p, "R">>)
    /\ ret' = [ret EXCEPT ![p] = NoRet]
    /\ path' = [path EXCEPT ![p] = "none"]
    /\ fetched' = [fetched EXCEPT ![p] = 0]
    /\ reply' = [reply EXCEPT ![p] = NetError]
    /\ ncalls' = ncalls + 1
    /\ IF \A q \in Callers : pc[q] \in {"idle", "done", "abandoned"}
       THEN /\ busyStart' = clock
            /\ inBusy' = [q \in Callers |-> q = p]
       ELSE /\ inBusy' = [inBusy EXCEPT ![p] = TRUE]
            /\ UNCHANGED busyStart
    /\ arrStale' = [arrStale EXCEPT ![p] =
            \/ ~time_cache.some
            \/ /\ clock >= time_cache.last_updated
               /\ (clock - time_cache.last_updated) \div TicksPerSec
                      >= cache_timeout]
    /\ fromCurrent' = [fromCurrent EXCEPT ![p] = FALSE]
    /\ UNCHANGED <<clock, cache_timeout, time_cache, readers, writer,
                   duration, t_eval, nback, ntp_req, ntp_res>>

\* RwLock::read() is granted: no writer holds the lock and nobody waits ahead
AcquireRead_unguarded(p) ==
    /\ pc[p] = "read_wait"
    /\ queue # <<>>
    /\ Head(queue) = <<p, "R">>
    /\ readers' = readers \cup {p}
    /\ queue' = Tail(queue)
    /\ pc' = [pc EXCEPT ![p] = "fast"]
    /\ UNCHANGED <<clock, cache_timeout, time_cache, writer, duration, ret,
                   path, fetched, t_eval, reply, ncalls, busyStart, inBusy, arrStale,
                   nback, ntp_req, ntp_res,
                   fromCurrent>>

AcquireRead(p) ==
    /\ pc[p] = "read_wait"
    /\ queue # <<>>
    /\ Head(queue) = <<p, "R">>
    /\ writer = 0
    /\ readers' = readers \cup {p}
    /\ queue' = Tail(queue)
    /\ pc' = [pc EXCEPT ![p] = "fast"]
    /\ UNCHANGED <<clock, cache_timeout, time_cache, writer, duration, ret,
                   path, fetched, t_eval, reply, ncalls, busyStart, inBusy, arrStale,
                   nback, ntp_req, ntp_res,
                   fromCurrent>>

\* the value fast_get_time_from_cache returns on a fresh reading
\* (main.rs:67-69)
extrapolated_raw(time, secs) == time.last_ntp

extrapolated(time, secs) == checked_add_signed(time.last_ntp, secs)

\* the read guard of fast_get_time_from_cache goes out of scope when the
\* function returns (main.rs:77)
drop_read_guard_kept(rs, p) == rs

drop_read_guard(rs, p) == rs \ {p}

\* the body of fast_get_time_from_cache under the read guard, the drop of
\* the guard, and the match of get_time(): Some(val) is returned, None goes
\* on to update_and_return_new_time (main.rs:48)
FastCheck(p) ==
    /\ pc[p] = "fast"
    /\ readers' = drop_read_guard(readers, p)
    /\ LET d == duration_since(clock, time_cache.last_updated)
       IN  IF time_cache.some /\ is_fresh(d, cache_timeout)
           THEN /\ ret' = [ret EXCEPT ![p] =
                               Returned(extrapolated(time_cache, d.secs))]
                /\ path' = [path EXCEPT ![p] = "fast"]
                /\ pc' = [pc EXCEPT ![p] = "done"]
                /\ fromCurrent' = [fromCurrent EXCEPT ![p] = TRUE]
           ELSE /\ pc' = [pc EXCEPT ![p] = "slow_start"]
                /\ UNCHANGED <<ret, path, fromCurrent>>
    /\ UNCHANGED <<clock, cache_timeout, time_cache, writer, queue, duration,
                   fetched, t_eval, reply, ncalls, busyStart, inBusy,
                   arrStale, nback, ntp_req, ntp_res>>

\* update_and_return_new_time starts: the caller, which holds no guard any
\* more, asks for the write lock (main.rs:100)
RequestWrite(p) ==
    /\ pc[p] = "slow_start"
    /\ pc' = [pc EXCEPT ![p] = "write_wait"]
    /\ queue' = Append(queue, <<p, "W">>)
    /\ UNCHANGED <<clock, cache_timeout, time_cache, readers, writer,
                   duration, ret, path, fetched, t_eval, reply, ncalls,
                   busyStart, inBusy, arrStale, nback, ntp_req, ntp_res,
                   fromCurrent>>

\* RwLock::write() is granted: nobody holds the lock and nobody waits ahead
AcquireWrite(p) ==
    /\ pc[p] = "write_wait"
    /\ queue # <<>>
    /\ Head(queue) = <<p, "W">>
    /\ writer = 0
    /\ readers = {}
    /\ writer' = p
    /\ queue' = Tail(queue)
    /\ pc' = [pc EXCEPT ![p] = "slow"]
    /\ UNCHANGED <<clock, cache_timeout, time_cache, readers, duration, ret,
                   path, fetched, t_eval, reply, ncalls, busyStart, inBusy, arrStale,
                   nback, ntp_req, ntp_res,
                   fromCurrent>>

\* update_and_return_new_time under the write guard, up to the request to
\* the time source (main.rs:102-113, 128-132) or the return of the cached
\* instant (main.rs:127)
SlowCheck(p) ==
    /\ pc[p] = "slow"
    /\ IF time_cache.some
       THEN LET d == duration_since(clock, time_cache.last_updated)
            IN  IF is_timed_out(d, cache_timeout)
                THEN /\ duration' = [duration EXCEPT ![p] = d]
                     /\ t_eval' = [t_eval EXCEPT ![p] = clock]
                     /\ fetched' = [fetched EXCEPT ![p] = @ + 1]
                     /\ pc' = [pc EXCEPT ![p] = "ntp_update"]
                     /\ UNCHANGED <<ret, path, writer, fromCurrent>>
                ELSE /\ ret' = [ret EXCEPT ![p] = Returned(time_cache.last_ntp)]
                     /\ path' = [path EXCEPT ![p] = "recheck"]
                     /\ pc' = [pc EXCEPT ![p] = "done"]
                     /\ writer' = 0
                     /\ fromCurrent' = [fromCurrent EXCEPT ![p] = TRUE]
                     /\ UNCHANGED <<duration, t_eval, fetched>>
       ELSE /\ t_eval' = [t_eval EXCEPT ![p] = clock]
            /\ fetched' = [fetched EXCEPT ![p] = @ + 1]
            /\ pc' = [pc EXCEPT ![p] = "ntp_new"]
            /\ UNCHANGED <<duration, ret, path, writer, fromCurrent>>
    /\ UNCHANGED <<clock, cache_timeout, time_cache, readers, queue, reply,
                   ncalls, busyStart, inBusy, arrStale, nback, ntp_req,
                   ntp_res>>

\* the value update_and_return_new_time returns once the request has come
\* back: on a stale reading the stored instant (main.rs:127) or the fallback
\* (main.rs:120-123), on an empty slot the new instant or the local clock
\* (main.rs:132-141)
returned_value(branch, slot, val, dur, now) ==
    IF branch = "ntp_update"
    THEN IF val.ok THEN after_update(slot, val, now).last_ntp
         ELSE checked_add_signed(slot.last_ntp, dur.secs)
    ELSE IF val.ok THEN val.val
         ELSE UtcNow(now)

returned_path(branch, val) ==
    IF branch = "ntp_update"
    THEN (IF val.ok THEN "refreshed" ELSE "fallback")
    ELSE (IF val.ok THEN "created" ELSE "nocache")

\* history: whose returned values come from the reading the slot holds once
\* the request has come back: a new reading is the source of the value of
\* the caller that stored it alone, the fallback comes from the old reading
derived_after(fc, p, branch, val) ==
    IF val.ok THEN [q \in Callers |-> q = p]
    ELSE [fc EXCEPT ![p] = (branch = "ntp_update")]

\* the request to the time source comes back with `response`; the rest of
\* update_and_return_new_time runs and the write guard is dropped
NtpReturn_retry(p, response) ==
    LET val == get_time_from_ntp(response)
    IN  /\ pc[p] \in {"ntp_update", "ntp_new"}
        /\ reply' = [reply EXCEPT ![p] = response]
        /\ IF ~val.ok /\ fetched[p] < 2
           THEN /\ fetched' = [fetched EXCEPT ![p] = @ + 1]
                /\ UNCHANGED <<time_cache, ret, path, duration, t_eval,
                               writer, pc, fromCurrent>>
           ELSE /\ time_cache' =
                      IF pc[p] = "ntp_update"
                      THEN after_update(time_cache, val, clock)
                      ELSE after_create(time_cache, val, clock)
                /\ ret' = [ret EXCEPT ![p] = Returned(
                      returned_value(pc[p], time_cache, val, duration[p],
                                     clock))]
                /\ path' = [path EXCEPT ![p] = returned_path(pc[p], val)]
                /\ duration' = [duration EXCEPT ![p] = NoDuration]
                /\ t_eval' = [t_eval EXCEPT ![p] = 0]
                /\ writer' = 0
                /\ pc' = [pc EXCEPT ![p] = "done"]
                /\ fromCurrent' = derived_after(fromCurrent, p, pc[p], val)
                /\ UNCHANGED fetched
        /\ UNCHANGED <<clock, cache_timeout, readers, queue, ncalls,
                       busyStart, inBusy, arrStale, nback, ntp_req, ntp_res>>

NtpReturn(p, response) ==
    LET val == get_time_from_ntp(response)
    IN  /\ pc[p] \in {"ntp_update", "ntp_new"}
        /\ time_cache' =
              IF pc[p] = "ntp_update"
              THEN after_update(time_cache, val, clock)
              ELSE after_create(time_cache, val, clock)
        /\ ret' = [ret EXCEPT ![p] = Returned(
              returned_value(pc[p], time_cache, val, duration[p], clock))]
        /\ path' = [path EXCEPT ![p] = returned_path(pc[p], val)]
        /\ reply' = [reply EXCEPT ![p] = response]
        /\ duration' = [duration EXCEPT ![p] = NoDuration]
        /\ t_eval' = [t_eval EXCEPT ![p] = 0]
        /\ writer' = 0
        /\ pc' = [pc EXCEPT ![p] = "done"]
        /\ fromCurrent' = derived_after(fromCurrent, p, pc[p], val)
        /\ UNCHANGED <<clock, cache_timeout, readers, queue, fetched, ncalls,
                       busyStart, inBusy, arrStale, nback, ntp_req, ntp_res>>

\* the local clock advances
Tick(maxClock) ==
    /\ clock < maxClock
    /\ clock' = clock + 1
    /\ UNCHANGED <<cache_timeout, time_cache, readers, writer, queue, pc,
                   duration, ret, path, fetched, t_eval, reply, ncalls, busyStart, inBusy,
                   arrStale, nback, ntp_req, ntp_res,
                   fromCurrent>>

\* SystemTime is not monotonic: the local clock is set back
ClockBack ==
    /\ clock > 0
    /\ nback < MaxSkew
    /\ clock' = clock - 1
    /\ nback' = nback + 1
    /\ UNCHANGED <<cache_timeout, time_cache, readers, writer, queue, pc,
                   duration, ret, path, fetched, t_eval, reply, ncalls, busyStart, inBusy,
                   arrStale, ntp_req, ntp_res,
                   fromCurrent>>

CallerStep(p, maxCalls, responses) ==
    \/ Call(p, maxCalls)
    \/ AcquireRead(p)
    \/ FastCheck(p)
    \/ RequestWrite(p)
    \/ AcquireWrite(p)
    \/ SlowCheck(p)
    \/ \E response \in responses : NtpReturn(p, response)

\* the program under a local clock that never runs backward
Next ==
    \/ \E p \in Callers : CallerStep(p, MaxCalls, Replies)
    \/ Tick(MaxClock)

Spec == Init /\ [][Next]_vars

\* the program under a local clock that may also be set back
NextSkew ==
    \/ \E p \in Callers : CallerStep(p, MaxCalls, Replies)
    \/ Tick(MaxClock)
    \/ ClockBack

SpecSkew == Init /\ [][NextSkew]_vars

\* ------------------------------------------------ the concrete scenario
\* one caller, cache_timeout = 5 s, a clock that runs from 0 s to 6 s, and a
\* time source that answers 2024-01-01T00:00:00Z or 2024-01-01T00:00:10Z
ScenarioReplies == {NetError, NtpReply(45291, 0), NtpReply(45291, 10)}

InitScenario ==
    /\ new(5)
    /\ InitCallers
    /\ NtpIdle

NextScenario ==
    \/ CallerStep(1, ScnCalls, ScenarioReplies)
    \/ Tick(6 * TicksPerSec)

SpecScenario == InitScenario /\ [][NextScenario]_vars

\* ------------------------------------------------- the adapter on its own
\* reference counts around 2024 (among them the counts that stand for
\* 2024-01-01 and 2024-06-01), the first and the last count of the u32 range
NtpInputs ==
    {NetError, NtpReply(0, 0), NtpReply(49710, 23295)}
        \cup {NtpReply(45290 + k, s) : k \in 0..NtpSamples, s \in {0, 86399}}

InitNtp ==
    /\ new(0)
    /\ InitCallers
    /\ ntp_req \in NtpInputs
    /\ ntp_res = [done |-> FALSE, ok |-> FALSE, val |-> NoInstant]

\* one request to the time source is answered with ntp_req and converted
Convert ==
    /\ ~ntp_res.done
    /\ ntp_res' = [done |-> TRUE,
                   ok   |-> get_time_from_ntp(ntp_req).ok,
                   val  |-> get_time_from_ntp(ntp_req).val]
    /\ UNCHANGED <<clock, cache_timeout, time_cache, readers, writer, queue,
                   pc, duration, ret, path, fetched, t_eval, reply, ncalls,
                   busyStart, inBusy, arrStale, nback, ntp_req, fromCurrent>>

SpecNtp == InitNtp /\ [][Convert]_vars

\* ------------------------------------------------------------ properties
\* seconds since 1970-01-01 of an instant before 2038
UnixSecs(t) == t.day * SecsPerDay + t.sec

\* whole seconds between two clock readings, the later one first
WholeSecs(now, earlier) == (now - earlier) \div TicksPerSec

InFlight(p) == pc[p] \in {"ntp_update", "ntp_new"}

FetchFailed(p) == ~get_time_from_ntp(reply[p]).ok

\* C1: a get_time() call that finds the slot empty and whose fetch fails
\* returns an error to its caller, never a fabricated instant such as the
\* reading of the local clock.
C1_HardFailure ==
    \A p \in Callers :
        (pc[p] = "done" /\ path[p] = "nocache") => ret[p].kind = "Err"

Fetchable == {get_time_from_ntp(r).val : r \in Replies \ {NetError}}

AllDone == \A p \in Callers : pc[p] = "done"

\* the callers' current calls ran concurrently, all arrived at a stale or
\* empty slot, no request of theirs failed, and less than cache_timeout has
\* passed on the local clock since the first of them arrived
Batch ==
    /\ AllDone
    /\ \A p \in Callers :
          inBusy[p] /\ arrStale[p] /\ path[p] \notin {"fallback", "nocache"}
    /\ clock - busyStart < cache_timeout * TicksPerSec

TotalFetched == LET S[n \in 0..NCallers] ==
                        IF n = 0 THEN 0 ELSE S[n - 1] + fetched[n]
                IN  S[NCallers]

\* C3: when the calls of all N callers run against a stale or empty slot,
\* the time source answers, and less than cache_timeout passes before they
\* have all returned, the time source was asked exactly once and every call
\* returned a value derived from the reading that one fetch stored.
C3_SingleFlight ==
    Batch =>
        /\ TotalFetched = 1
        /\ time_cache.some
        /\ \A p \in Callers :
              /\ ret[p].kind = "Instant"
              /\ UnixSecs(ret[p].val) - UnixSecs(time_cache.last_ntp)
                     \in 0..(cache_timeout - 1)
              /\ fetched[p] = 1 => ret[p].val = time_cache.last_ntp

C3_Witness ==
    /\ Batch
    /\ \E p, q \in Callers :
          path[p] = "refreshed" /\ fetched[p] = 1 /\ fetched[q] = 0

\* C4: a call that finds a stale reading (cache_timeout whole seconds old or
\* older) and whose refresh fails returns a value, and the value is the stale
\* reading's instant plus the whole seconds between its captured_at and the
\* staleness check.
C4_FallbackOnFailure ==
    [][\A p \in Callers :
          ( /\ InFlight(p)
            /\ pc'[p] = "done"
            /\ time_cache.some
            /\ WholeSecs(t_eval[p], time_cache.last_updated) >= cache_timeout
            /\ ~get_time_from_ntp(reply'[p]).ok )
          => ( /\ ret'[p].kind = "Instant"
               /\ ret'[p].val.sec \in 0..(SecsPerDay - 1)
               /\ UnixSecs(ret'[p].val) = UnixSecs(time_cache.last_ntp)
                     + WholeSecs(t_eval[p], time_cache.last_updated) )]_vars

C4_Witness ==
    \E p \in Callers :
        /\ pc[p] = "done"
        /\ path[p] = "fallback"
        /\ FetchFailed(p)
        /\ ret[p].val \notin Fetchable

\* C5: a staleness check at T1 of a reading with T1 - T0 >= cache_timeout
\* whole seconds (equality included) is never served from the cache: the
\* fast path hands over to the refresh path, and the refresh path, seeing the
\* reading unchanged, sends one request to the time source; when the request
\* succeeds the slot holds the fetched instant with captured_at set to the
\* local clock at the refresh, and the call returns that instant as fetched.
C5_ExpiryTriggersRefresh ==
    [][\A p \in Callers :
          LET stale == /\ time_cache.some
                       /\ clock >= time_cache.last_updated
                       /\ WholeSecs(clock, time_cache.last_updated)
                              >= cache_timeout
              val == get_time_from_ntp(reply'[p])
          IN  /\ (pc[p] = "fast" /\ pc'[p] # "fast" /\ stale)
                    => (pc'[p] = "slow_start" /\ fetched'[p] = 0)
              /\ (pc[p] = "slow" /\ pc'[p] # "slow" /\ stale)
                    => (pc'[p] = "ntp_update" /\ fetched'[p] = 1)
              /\ (pc[p] = "ntp_update" /\ pc'[p] = "done" /\ val.ok)
                    => ( /\ time_cache' = TimeCache(val.val, clock)
                         /\ ret'[p] = Returned(val.val)
                         /\ fetched'[p] = 1 )]_vars

\* a reading stored at tick 0 was refreshed at the very tick at which its age
\* reached cache_timeout
C5_Witness ==
    \E p \in Callers :
        /\ pc[p] = "done"
        /\ path[p] = "refreshed"
        /\ fetched[p] = 1
        /\ cache_timeout > 0
        /\ time_cache.some
        /\ time_cache.last_updated = cache_timeout * TicksPerSec
        /\ ret[p].val = time_cache.last_ntp

\* C6: at most one request to the time source is in flight; the caller that
\* sent it holds the write guard from before the request until the slot is
\* updated, and while it is in flight nobody else holds a read or a write
\* guard.
C6_MutualExclusion ==
    /\ [](/\ Cardinality({p \in Callers : InFlight(p)}) <= 1
          /\ \A p \in Callers :
                (InFlight(p) \/ pc[p] = "slow")
                    => (writer = p /\ readers = {})
          /\ \A p \in Callers : pc[p] = "fast" => (p \in readers /\ writer = 0))
    /\ [][time_cache' # time_cache
             => (writer \in Callers /\ InFlight(writer))]_vars

C6_Witness ==
    \E p, q \in Callers :
        /\ p # q
        /\ InFlight(p)
        /\ pc[q] \in {"read_wait", "write_wait"}

\* C7: a get_time() call sends at most one request to the time source
\* whatever the answer: none when it is served from a fresh reading, exactly
\* one when its check under the write guard finds the slot stale or empty.
C7_NoRetry ==
    \A p \in Callers :
        /\ fetched[p] <= 1
        /\ (pc[p] = "done" /\ path[p] \in {"fast", "recheck"})
              => fetched[p] = 0
        /\ (InFlight(p)
              \/ (pc[p] = "done"
                    /\ path[p] \in {"refreshed", "fallback", "created",
                                    "nocache"}))
              => fetched[p] = 1

C7_Witness ==
    \E p, q \in Callers :
        /\ pc[p] = "done" /\ FetchFailed(p) /\ fetched[p] = 1
        /\ pc[q] = "done" /\ path[q] = "fast"

\* days between the epoch of the reference count (1900-01-01) and the
\* calendar epoch (1970-01-01)
EpochOffsetDays == DaysFromCivil(1970, 1, 1) - DaysFromCivil(1900, 1, 1)

\* C8: for every reference count the adapter yields the instant obtained by
\* subtracting the fixed 70-year epoch offset from the count and reading the
\* rest as seconds since the calendar epoch, so the count that stands for an
\* instant X yields exactly X.
C8_EpochCorrection ==
    (ntp_res.done /\ ntp_req.ok) =>
        /\ ntp_res.ok
        /\ ntp_res.val = Instant(ntp_req.days - EpochOffsetDays, ntp_req.secs)

\* C10: a failed fetch leaves the slot as it was: an empty slot stays empty
\* and a stale reading keeps its instant and its captured_at.
C10_FailedFetchKeepsSlot ==
    [][\A p \in Callers :
          (InFlight(p) /\ pc'[p] = "done" /\ ~get_time_from_ntp(reply'[p]).ok)
              => time_cache' = time_cache]_vars

C10_Witness ==
    \E p, q \in Callers :
        /\ pc[p] = "done" /\ path[p] = "nocache" /\ ~time_cache.some
        /\ pc[q] = "done" /\ path[q] = "nocache"

\* 2024-01-01T00:00:00Z plus n seconds
Scn(n) == Instant(DaysFromCivil(2024, 1, 1), n)

\* the clock reading at n seconds sharp
AtSec(n) == n * TicksPerSec

\* C9: with cache_timeout = 5 s and one caller: the call at T = 0 s on the
\* empty slot, the source answering 2024-01-01T00:00:00Z, returns that
\* instant; the call at T = 3 s returns 2024-01-01T00:00:03Z without a
\* request to the source; the call at T = 6 s, the source now answering
\* 2024-01-01T00:00:10Z, sends one request, returns 2024-01-01T00:00:10Z and
\* leaves captured_at at 6 s.
C9_Scenario ==
    [][LET val == get_time_from_ntp(reply'[1])
           first == TimeCache(Scn(0), AtSec(0))
       IN  /\ ( /\ pc[1] = "ntp_new" /\ pc'[1] = "done"
                /\ clock = AtSec(0) /\ val.ok /\ val.val = Scn(0) )
              => ( /\ ret'[1] = Returned(Scn(0))
                   /\ time_cache' = first
                   /\ fetched'[1] = 1 )
           /\ ( /\ pc[1] = "fast" /\ pc'[1] # "fast"
                /\ time_cache = first /\ clock = AtSec(3) )
              => ( /\ pc'[1] = "done"
                   /\ ret'[1] = Returned(Scn(3))
                   /\ fetched'[1] = 0
                   /\ time_cache' = first )
           /\ ( /\ pc[1] = "fast" /\ pc'[1] # "fast"
                /\ time_cache = first /\ clock = AtSec(6) )
              => (pc'[1] = "slow_start" /\ fetched'[1] = 0)
           /\ ( /\ pc[1] = "slow" /\ pc'[1] # "slow"
                /\ time_cache = first /\ clock = AtSec(6) )
              => (pc'[1] = "ntp_update" /\ fetched'[1] = 1)
           /\ ( /\ pc[1] = "ntp_update" /\ pc'[1] = "done"
                /\ time_cache = first /\ clock = AtSec(6)
                /\ val.ok /\ val.val = Scn(10) )
              => ( /\ ret'[1] = Returned(Scn(10))
                   /\ time_cache' = TimeCache(Scn(10), AtSec(6))
                   /\ fetched'[1] = 1 )]_vars

\* the third call of the scenario has returned
C9_Witness ==
    /\ cache_timeout = 5
    /\ ncalls = 3
    /\ clock = AtSec(6)
    /\ pc[1] = "done"
    /\ path[1] = "refreshed"
    /\ fetched[1] = 1
    /\ ret[1] = Returned(Scn(10))
    /\ time_cache = TimeCache(Scn(10), AtSec(6))

\* C11: the fast path returns a value if and only if the slot holds a
\* reading whose whole-second age is at least 0 and less than cache_timeout;
\* on an empty slot, on an age of cache_timeout or more and on a clock that
\* reads earlier than captured_at it returns nothing; it sends no request to
\* the time source and leaves the slot as it is.
C11_FastPathOnlyFresh ==
    [][\A p \in Callers :
          (pc[p] = "fast" /\ pc'[p] # "fast") =>
              LET fresh == /\ time_cache.some
                           /\ clock >= time_cache.last_updated
                           /\ WholeSecs(clock, time_cache.last_updated)
                                  < cache_timeout
              IN  /\ (pc'[p] = "done") <=> fresh
                  /\ fresh => (ret'[p].kind = "Instant" /\ path'[p] = "fast")
                  /\ ~fresh => (pc'[p] = "slow_start" /\ ret'[p] = NoRet)
                  /\ time_cache' = time_cache
                  /\ fetched'[p] = 0
                  /\ reply'[p] = reply[p]]_vars

\* the fast path has served one caller and sent another one on, the latter
\* because the clock reads earlier than captured_at
C11_Witness ==
    \E p, q \in Callers :
        /\ pc[p] = "done" /\ path[p] = "fast"
        /\ pc[q] = "slow_start"
        /\ time_cache.some
        /\ clock < time_cache.last_updated

\* C12: every value get_time() returns from a reading it did not itself just
\* fetch is last_ntp plus the whole seconds elapsed since captured_at, never
\* the raw cached instant: on the fast path and for the caller that entered
\* the slow path, waited for the write lock and found the reading fresh on
\* its re-check.
C12_AlwaysExtrapolated ==
    [][\A p \in Callers :
          ( /\ pc[p] \in {"fast", "slow"}
            /\ pc'[p] = "done"
            /\ path'[p] \in {"fast", "recheck"} )
          => ret'[p] = Returned(checked_add_signed(time_cache.last_ntp,
                           WholeSecs(clock, time_cache.last_updated)))]_vars

\* C13: every value get_time() derives from a cached reading is at or after
\* that reading's authoritative instant; when the local clock reads earlier
\* than captured_at the fast path serves nothing and the slow path returns
\* the cached instant itself (an elapsed time of zero), so no instant
\* earlier than the cached one is ever returned.
C13_NeverBackward ==
    [][\A p \in Callers :
          LET behind == time_cache.some /\ clock < time_cache.last_updated
          IN  /\ ( /\ pc[p] # "done" /\ pc'[p] = "done"
                   /\ path'[p] \in {"fast", "recheck", "fallback"} )
                 => UnixSecs(ret'[p].val) >= UnixSecs(time_cache.last_ntp)
              /\ (pc[p] = "fast" /\ pc'[p] # "fast" /\ behind)
                 => pc'[p] = "slow_start"
              /\ (pc[p] = "slow" /\ pc'[p] # "slow" /\ behind)
                 => /\ pc'[p] = "done"
                    /\ ret'[p] = Returned(time_cache.last_ntp)]_vars

\* a caller has returned from a reading captured later than the clock reads
C13_Witness ==
    \E p \in Callers :
        /\ pc[p] = "done"
        /\ path[p] = "recheck"
        /\ nback > 0
        /\ time_cache.some
        /\ clock < time_cache.last_updated
        /\ ret[p] = Returned(time_cache.last_ntp)

\* ------------------------------------------- the store, field by field
\* the refresh of a stale reading assigns the two fields one after the
\* other (main.rs:116-117); here each assignment is a step of its own
NtpAssign(p, response) ==
    LET val == get_time_from_ntp(response)
    IN  /\ pc[p] = "ntp_update"
        /\ val.ok
        /\ time_cache' = [time_cache EXCEPT !.last_ntp = val.val]
        /\ reply' = [reply EXCEPT ![p] = response]
        /\ pc' = [pc EXCEPT ![p] = "ntp_store"]
        /\ UNCHANGED <<clock, cache_timeout, readers, writer, queue, duration,
                       ret, path, fetched, t_eval, ncalls, busyStart, inBusy,
                       arrStale, nback, ntp_req, ntp_res, fromCurrent>>

\* time.last_updated = SystemTime::now(), the return of time.last_ntp and
\* the drop of the write guard (main.rs:117-127)
StoreCapturedAt(p) ==
    /\ pc[p] = "ntp_store"
    /\ time_cache' = [time_cache EXCEPT !.last_updated = clock]
    /\ ret' = [ret EXCEPT ![p] = Returned(time_cache.last_ntp)]
    /\ path' = [path EXCEPT ![p] = "refreshed"]
    /\ duration' = [duration EXCEPT ![p] = NoDuration]
    /\ t_eval' = [t_eval EXCEPT ![p] = 0]
    /\ writer' = 0
    /\ pc' = [pc EXCEPT ![p] = "done"]
    /\ fromCurrent' = [q \in Callers |-> q = p]
    /\ UNCHANGED <<clock, cache_timeout, readers, queue, fetched, reply,
                   ncalls, busyStart, inBusy, arrStale, nback, ntp_req,
                   ntp_res>>

\* a failed request and the request on an empty slot end as before: nothing
\* is assigned, or the slot is assigned as a whole (main.rs:135-138)
NtpReturnWhole(p, response) ==
    /\ ~(pc[p] = "ntp_update" /\ get_time_from_ntp(response).ok)
    /\ NtpReturn(p, response)

NextStore ==
    \/ \E p \in Callers :
          \/ Call(p, MaxCalls)
          \/ AcquireRead(p)
          \/ FastCheck(p)
          \/ RequestWrite(p)
          \/ AcquireWrite(p)
          \/ SlowCheck(p)
          \/ \E response \in Replies : NtpAssign(p, response)
          \/ StoreCapturedAt(p)
          \/ \E response \in Replies : NtpReturnWhole(p, response)
    \/ Tick(MaxClock)

SpecStore == Init /\ [][NextStore]_vars

\* a caller that can read the slot: it holds a guard and has not yet left
\* the code that runs under it
Observes(p) == pc[p] \in {"fast", "slow", "ntp_update", "ntp_new"}

\* C14: the slot starts empty; it changes only as the effect of a successful
\* fetch, made by the caller that holds the write guard while nobody holds a
\* read guard; once it holds a reading it never becomes empty again; a
\* successful fetch replaces both fields, and no other caller can read the
\* slot between the two assignments.
C14_SlotLifecycle ==
    /\ time_cache = EmptySlot
    /\ [](\A p, q \in Callers :
             (pc[p] = "ntp_store" /\ q # p) => ~Observes(q))
    /\ [][ /\ time_cache' # time_cache
              => /\ writer \in Callers
                 /\ readers = {}
                 /\ pc[writer] \in {"ntp_update", "ntp_new", "ntp_store"}
                 /\ get_time_from_ntp(reply'[writer]).ok
           /\ time_cache.some => time_cache'.some
           /\ \A p \in Callers :
                 ( /\ pc[p] # "done" /\ pc'[p] = "done"
                   /\ path'[p] \in {"refreshed", "created"} )
                 => time_cache' =
                       TimeCache(get_time_from_ntp(reply'[p]).val, clock)
         ]_vars

\* a refresh stands between its two assignments, the slot pairing the new
\* instant with the old captured_at, while another caller waits for the lock
C14_Witness ==
    \E p, q \in Callers :
        /\ pc[p] = "ntp_store"
        /\ pc[q] \in {"read_wait", "write_wait"}
        /\ time_cache.some
        /\ time_cache.last_ntp = get_time_from_ntp(reply[p]).val
        /\ time_cache.last_updated < t_eval[p]

\* C15: the adapter reports an error and yields no instant whenever the
\* reference count is too small to be shifted back by the 70-year offset
\* (it stands for an instant before 1970-01-01) and whenever the request to
\* the time source fails.
C15_ConversionErrors ==
    ntp_res.done =>
        /\ ~ntp_req.ok => (~ntp_res.ok /\ ntp_res.val = NoInstant)
        /\ (ntp_req.ok /\ ntp_req.days < EpochOffsetDays)
               => (~ntp_res.ok /\ ntp_res.val = NoInstant)

\* ------------------------------------------------------- abandoned calls
\* the future of get_time() is dropped while it waits for the lock
\* (main.rs:55, main.rs:100): the waiter leaves the queue of the RwLock
Abandon_leak(p) ==
    /\ pc[p] \in {"read_wait", "write_wait"}
    /\ pc' = [pc EXCEPT ![p] = "abandoned"]
    /\ UNCHANGED <<clock, cache_timeout, time_cache, readers, writer, queue,
                   duration, ret, path, fetched, t_eval, reply, ncalls,
                   busyStart, inBusy, arrStale, nback, ntp_req, ntp_res,
                   fromCurrent>>

Abandon(p) ==
    /\ pc[p] \in {"read_wait", "write_wait"}
    /\ pc' = [pc EXCEPT ![p] = "abandoned"]
    /\ queue' = SelectSeq(queue, LAMBDA e : e[1] # p)
    /\ UNCHANGED <<clock, cache_timeout, time_cache, readers, writer,
                   duration, ret, path, fetched, t_eval, reply, ncalls,
                   busyStart, inBusy, arrStale, nback, ntp_req, ntp_res,
                   fromCurrent>>

NextAbandon ==
    \/ \E p \in Callers : CallerStep(p, MaxCalls, Replies)
    \/ \E p \in Callers : Abandon(p)
    \/ Tick(MaxClock)

SpecAbandon == Init /\ [][NextAbandon]_vars

Waiting(p) == pc[p] \in {"read_wait", "write_wait"}

Queued(p) == \E i \in 1..Len(queue) : queue[i][1] = p

\* the callers' current calls ran concurrently, all arrived at a stale or
\* empty slot, some were abandoned and the others have returned, no request
\* failed, and less than cache_timeout has passed since the first arrived
BatchRemaining ==
    /\ \A p \in Callers :
          pc[p] \in {"done", "abandoned"} /\ inBusy[p] /\ arrStale[p]
    /\ \E p \in Callers : pc[p] = "abandoned"
    /\ \A p \in Callers : path[p] \notin {"fallback", "nocache"}
    /\ clock - busyStart < cache_timeout * TicksPerSec

C17_MonotonicForConsumers ==
    [][\A p, q \in Callers :
          ( /\ p # q
            /\ pc[p] = "done" /\ fromCurrent[p] /\ fromCurrent'[p]
            /\ pc[q] # "done" /\ pc'[q] = "done" /\ fromCurrent'[q] )
          => UnixSecs(ret'[q].val) >= UnixSecs(ret[p].val)]_vars

\* ---------------------------------------------------------- fair runs
\* what a caller does next once it can: the runtime polls a task that is
\* ready, the RwLock serves its queue first come first served, and the
\* blocking request to the time source comes back
Progress(p) ==
    \/ AcquireRead(p)
    \/ FastCheck(p)
    \/ RequestWrite(p)
    \/ AcquireWrite(p)
    \/ SlowCheck(p)
    \/ \E response \in Replies : NtpReturn(p, response)

Fairness == \A p \in Callers : WF_vars(Progress(p))

SpecLive == Init /\ [][NextAbandon]_vars /\ Fairness

InCall(p) == pc[p] \notin {"idle", "done", "abandoned"}

\* C18: every get_time() call eventually returns (or is abandoned by its
\* caller) when every request to the time source comes back and the lock
\* serves its waiters in turn; no caller asks or waits for the write lock
\* while it holds a read guard; and whenever a call is under way some caller
\* can take a step, so no reachable state is a deadlock.
C18_EveryCallReturns ==
    /\ [](\A p \in Callers :
             pc[p] \in {"slow_start", "write_wait"} => p \notin readers)
    /\ []((\E p \in Callers : InCall(p))
             => ENABLED (\E p \in Callers : Progress(p)))
    /\ \A p \in Callers : InCall(p) ~> (pc[p] \in {"done", "abandoned"})

\* every call the callers started has returned, one of them after it had
\* waited for the write lock behind another caller's fetch
C18_Witness ==
    /\ ncalls = MaxCalls
    /\ \A p \in Callers : pc[p] = "done"
    /\ \E p, q \in Callers :
          /\ path[p] = "recheck"
          /\ path[q] \in {"refreshed", "created"}

\* the callers' current calls ran concurrently, all arrived at a stale or
\* empty slot, and no fetch has succeeded since the first of them arrived:
\* none of them has stored a reading and the slot holds none that an
\* earlier call stored in the meantime
BatchFailing ==
    /\ AllDone
    /\ \A p \in Callers :
          inBusy[p] /\ arrStale[p] /\ path[p] \notin {"refreshed", "created"}
    /\ time_cache.some => time_cache.last_updated < busyStart

\* C19: when the calls of all N callers run against a stale or empty slot
\* and no fetch succeeds, every caller has sent its own single request to
\* the time source and returned the fallback (or the local clock on an empty
\* slot): N requests in all, and never two of them under way at once.
C19_FailuresNotCoalesced ==
    /\ Cardinality({p \in Callers : InFlight(p)}) <= 1
    /\ BatchFailing =>
          /\ TotalFetched = NCallers
          /\ \A p \in Callers :
                /\ fetched[p] = 1
                /\ FetchFailed(p)
                /\ path[p] \in {"fallback", "nocache"}

\* all callers of a busy period have returned the fallback of a stale
\* reading, each after a failed request of its own
C19_Witness ==
    /\ BatchFailing
    /\ time_cache.some
    /\ \A p \in Callers : path[p] = "fallback" /\ fetched[p] = 1

====
